---- MODULE Spec2Model ----
(***************************************************************************)
(* State-machine model of PTIRKDAE (scipy_dae/integrate/_dae/ptirk.py):    *)
(* the constructor, one call of _step_impl split at its loop heads, the    *)
(* simplified-Newton stop policy and the step-size controller.             *)
(*                                                                         *)
(* Numbers.  Time lives on a toy floating-point grid: spacing 1 up to      *)
(* Binade and spacing 2 beyond it; Fl rounds to that grid (ties to even).  *)
(* Step magnitudes are integers in grid units, products round towards 0.   *)
(* Factors (safety, factor, deadband) are fixed-point with ONE = 1.0.      *)
(* An error norm e is represented by ONE * e^(1/(s+1)), so e > 1, e = 0    *)
(* and the power (e_old/e)^(1/(s+1)) of predict_factor are exact.          *)
(* A Jacobian pair (Jy, Jyp) is identified by the time it was evaluated    *)
(* at, a factorization list by the signed h and the Jacobian it was built  *)
(* from.  Stage arrays are represented by their last row, and a converged   *)
(* solve returns the solution of the residual y' = 2t, y(0) = 0 there.     *)
(* NaN is a number of its own: every comparison with it is false and every *)
(* arithmetic operation on it yields it.                                   *)
(*                                                                         *)
(* Specifications.  Spec and FairSpec: the solver under repeated calls of  *)
(* _step_impl.  SolverSpec: the two collocation solvers alone, one pass of *)
(* the Newton loop per step, over all short sequences of correction norms. *)
(* DenseSpec: a dense output built from given stage values (two stages,    *)
(* exact fractions) and evaluated.                                         *)
(***************************************************************************)
EXTENDS Integers, Sequences, FiniteSets, TLC

ONE == 10 * 100
Inf == ONE * ONE
\* Python's None where a number is expected, where a rate is, where the
\* factorizations are, where a dense output is
None == -Inf
NoRate == <<0, 0>>
NoLUs == [h |-> None, J |-> None]
NoSol == [t_old |-> None, t |-> None, h |-> None, y_old |-> None,
          yp_old |-> None, Q |-> None, Qp |-> None]
NoValue == [t |-> None, y |-> <<None, 1>>, yp |-> <<None, 1>>]
NoCall == [strategy |-> None, norms |-> <<>>, nonfinite_at |-> None,
           newton_max_iter |-> None, tol |-> None]
NoReturn == [converged |-> FALSE, n_iter |-> None, rate |-> NoRate,
             applied |-> None, F |-> "empty"]
NoGuess == [from |-> <<None, None>>, h |-> None, applied |-> 0]
\* IEEE not-a-number, and the comparisons of floats
NaN == Inf + 1
Lt(a, b) == a # NaN /\ b # NaN /\ a < b
Le(a, b) == a # NaN /\ b # NaN /\ a <= b

\* ---- bounds of the model ----
TEnd == 32
Binade == 16
MaxStages == 4
NewtonMaxIter == 3
NewtonTol == 2

\* ---- program constants ----
KAPPA == 1
MinStepUlps == 10
DefaultStages == 4
UNKNOWN_VELOCITIES == TRUE
TOO_SMALL_STEP == "Required step size is less than spacing between numbers."
jac_recompute_rate == <<1, 1000>>
controller_deadband == <<ONE, 1200>>

NormVals == {0, 1, 2, 4}
ErrNorms == {0, 800, ONE, 1250, 2500}
MaxSteps == {5, 15, Inf}
FirstSteps == {3, 30}
EmbeddedIters == {0, 1, 2}
\* inputs of the dense output of one step: its t_old, its step t - t_old, the
\* state and derivative at t_old and at the stages
DenseTimes == {0, 4}
DenseSteps == {-2, 1, 3}
StateVals == {0, 1, 3}
DerivVals == {-2, 0, 1}
\* the correction norms of the collocation solvers taken alone
SolverNorms == {0, 1, 2, 3, 4, 8}

Abs(x) == IF x = NaN THEN NaN ELSE IF x < 0 THEN -x ELSE x
\* Python's min(a, b): b if b < a else a
Min(a, b) == IF Lt(b, a) THEN b ELSE a

Pow(a, n) ==
    LET pw[i \in 0..n] == IF i = 0 THEN 1 ELSE a * pw[i - 1]
    IN  pw[n]

\* float rounding of a real on the time grid (round to nearest, ties to even)
Fl(x) ==
    IF x = NaN \/ Abs(x) <= Binade \/ x % 2 = 0 THEN x
    ELSE IF (x + 1) % 4 = 0 THEN x + 1 ELSE x - 1

\* np.abs(np.nextafter(t, direction * np.inf) - t)
Spacing(t, direction) ==
    LET a == t * direction
    IN  IF a >= 0 THEN (IF a < Binade THEN 1 ELSE 2)
        ELSE (IF -a <= Binade THEN 1 ELSE 2)

MinStep(t, direction) == MinStepUlps * Spacing(t, direction)

\* ---------------------------------------------------------------------------
\* solve_collocation_system2 / solve_collocation_system: the stop policy, run on
\* the sequence of correction norms the iteration produces.  nonfinite_at is the
\* iteration (1-based) whose residual is non-finite, 0 for none.  A rate is the
\* pair <<norm, previous norm>> in lowest terms.  applied counts the corrections
\* added to the iterate.
\* ---------------------------------------------------------------------------
RECURSIVE Gcd(_, _)
Gcd(a, b) == IF b = 0 THEN a ELSE Gcd(b, a % b)

\* norm / norm_old
Rate(norm, norm_old) ==
    LET g == Gcd(norm, norm_old) IN <<norm \div g, norm_old \div g>>

RateGe1(rate_) == rate_[1] >= rate_[2]

\* rate ** (newton_max_iter - k) / (1 - rate) * norm > tol, for rate < 1
DivergenceBound(rate_, norm, k, newton_max_iter, tol) ==
    Pow(rate_[1], newton_max_iter - k) * rate_[2] * norm
        > tol * Pow(rate_[2], newton_max_iter - k) * (rate_[2] - rate_[1])

\* rate / (1 - rate) * norm < tol, for rate < 1
ConvergenceBound(rate_, norm, tol) ==
    rate_[1] * norm < tol * (rate_[2] - rate_[1])

\* variant: only a rate of 1 or more counts as divergence
Diverged_RateOnly(rate_, norm, k, newton_max_iter, tol) ==
    rate_ # NoRate /\ RateGe1(rate_)

Diverged(rate_, norm, k, newton_max_iter, tol) ==
    /\ rate_ # NoRate
    /\ (RateGe1(rate_) \/ DivergenceBound(rate_, norm, k, newton_max_iter, tol))

Converged(rate_, norm, tol) ==
    norm = 0 \/ (rate_ # NoRate /\ ConvergenceBound(rate_, norm, tol))

\* the state of the loop before its first iteration
NewtonStart ==
    [done |-> FALSE, converged |-> FALSE, k |-> 0, norm_old |-> None,
     rate |-> NoRate, applied |-> 0, finite |-> TRUE]

\* variant: the residuals are tested after the correction has been added
NewtonIteration2_CorrectsFirst(st, norm, nonfinite, newton_max_iter, tol) ==
    IF nonfinite
    THEN [st EXCEPT !.done = TRUE, !.finite = FALSE, !.applied = @ + 1]
    ELSE LET r == IF st.norm_old # None THEN Rate(norm, st.norm_old) ELSE st.rate
             upd == [st EXCEPT !.rate = r, !.applied = @ + 1]
         IN  IF Diverged(r, norm, st.k, newton_max_iter, tol)
             THEN [upd EXCEPT !.done = TRUE]
             ELSE IF Converged(r, norm, tol)
             THEN [upd EXCEPT !.done = TRUE, !.converged = TRUE]
             ELSE IF st.k + 1 = newton_max_iter
             THEN [upd EXCEPT !.done = TRUE, !.norm_old = norm]
             ELSE [upd EXCEPT !.k = @ + 1, !.norm_old = norm]

\* one pass of the loop body of solve_collocation_system2, iteration st.k
NewtonIteration2(st, norm, nonfinite, newton_max_iter, tol) ==
    IF nonfinite THEN [st EXCEPT !.done = TRUE, !.finite = FALSE]
    ELSE LET r == IF st.norm_old # None THEN Rate(norm, st.norm_old) ELSE st.rate
             upd == [st EXCEPT !.rate = r, !.applied = @ + 1]
         IN  IF Diverged(r, norm, st.k, newton_max_iter, tol)
             THEN [upd EXCEPT !.done = TRUE]
             ELSE IF Converged(r, norm, tol)
             THEN [upd EXCEPT !.done = TRUE, !.converged = TRUE]
             ELSE IF st.k + 1 = newton_max_iter
             THEN [upd EXCEPT !.done = TRUE, !.norm_old = norm]
             ELSE [upd EXCEPT !.k = @ + 1, !.norm_old = norm]

\* one pass of the loop body of solve_collocation_system, iteration st.k
NewtonIteration1(st, norm, nonfinite, newton_max_iter, tol) ==
    IF nonfinite THEN [st EXCEPT !.done = TRUE, !.finite = FALSE]
    ELSE LET r == IF st.norm_old # None THEN Rate(norm, st.norm_old) ELSE st.rate
             upd == [st EXCEPT !.rate = r]
         IN  IF Diverged(r, norm, st.k, newton_max_iter, tol)
             THEN [upd EXCEPT !.done = TRUE]
             ELSE IF Converged(r, norm, tol)
             THEN [upd EXCEPT !.done = TRUE, !.converged = TRUE, !.applied = @ + 1]
             ELSE IF st.k + 1 = newton_max_iter
             THEN [upd EXCEPT !.done = TRUE, !.norm_old = norm, !.applied = @ + 1]
             ELSE [upd EXCEPT !.k = @ + 1, !.norm_old = norm, !.applied = @ + 1]

\* return converged, k + 1, Y, Yp, Z, rate; with them, what the call leaves
\* behind: the number of corrections added to the iterate and whether the last
\* residuals F were finite
NewtonReturn(st) ==
    [converged |-> st.converged, n_iter |-> st.k + 1, rate |-> st.rate,
     applied |-> st.applied, F |-> IF st.finite THEN "finite" ELSE "non-finite"]

solve_collocation_system2(norms, nonfinite_at, newton_max_iter, tol) ==
    LET run[i \in 0..newton_max_iter] ==
            IF i = 0 THEN NewtonStart
            ELSE LET st == run[i - 1]
                 IN  IF st.done THEN st
                     ELSE NewtonIteration2(st, norms[i], nonfinite_at = i,
                                           newton_max_iter, tol)
    IN  NewtonReturn(run[newton_max_iter])

solve_collocation_system(norms, nonfinite_at, newton_max_iter, tol) ==
    LET run[i \in 0..newton_max_iter] ==
            IF i = 0 THEN NewtonStart
            ELSE LET st == run[i - 1]
                 IN  IF st.done THEN st
                     ELSE NewtonIteration1(st, norms[i], nonfinite_at = i,
                                           newton_max_iter, tol)
    IN  NewtonReturn(run[newton_max_iter])

NormSeqs == [1..NewtonMaxIter -> NormVals]

\* what the solver can return to _step_impl
SolverOutcomes ==
    { IF UNKNOWN_VELOCITIES
      THEN solve_collocation_system2(ns, nf, NewtonMaxIter, NewtonTol)
      ELSE solve_collocation_system(ns, nf, NewtonMaxIter, NewtonTol)
      : ns \in NormSeqs, nf \in 0..NewtonMaxIter }

\* ---------------------------------------------------------------------------
\* predict_factor
\* ---------------------------------------------------------------------------
\* np.arctan on fixed-point numbers: x / (1 + 0.28 x^2) on [-1, 1] and
\* pi/2 - x / (x^2 + 0.28) beyond (error below 0.005); arctan(inf) = pi/2
ArcTanPos(x) ==
    IF x >= 40 * ONE THEN 1571
    ELSE IF x <= ONE THEN (x * ONE * ONE) \div (ONE * ONE + (28 * x * x) \div 100)
    ELSE 1571 - (x * ONE) \div ((x * x) \div ONE + 280)

ArcTan(x) == IF x < 0 THEN -ArcTanPos(-x) ELSE ArcTanPos(x)

Multiplier(h_abs_, h_abs_old_, error_norm_, error_norm_old_) ==
    IF error_norm_old_ = None \/ h_abs_old_ = None \/ error_norm_ = 0
    THEN ONE
    ELSE IF NaN \in {h_abs_, h_abs_old_, error_norm_, error_norm_old_} THEN NaN
    ELSE IF h_abs_old_ = 0 THEN Inf
    ELSE (h_abs_ * error_norm_old_ * ONE) \div (h_abs_old_ * error_norm_)

SmoothLimiter(f) ==
    IF f = NaN THEN NaN ELSE ONE + KAPPA * ArcTan((f - ONE) \div KAPPA)

predict_factor(h_abs_, h_abs_old_, error_norm_, error_norm_old_, s) ==
    LET multiplier == Multiplier(h_abs_, h_abs_old_, error_norm_, error_norm_old_)
        raw == IF error_norm_ = 0 THEN Inf
               ELSE IF error_norm_ = NaN THEN NaN
               ELSE (Min(ONE, multiplier) * ONE) \div error_norm_
    IN  SmoothLimiter(raw)

\* 0.9 * (2 * newton_max_iter + 1) / (2 * newton_max_iter + n_iter)
Safety(newton_max_iter, n_iter_) ==
    (900 * (2 * newton_max_iter + 1)) \div (2 * newton_max_iter + n_iter_)

Scale(x, f) == IF x = NaN \/ f = NaN THEN NaN ELSE (x * f) \div ONE

\* ---------------------------------------------------------------------------
\* State
\* ---------------------------------------------------------------------------
VARIABLES
    self,            \* the solver instance: its attributes
    pc,              \* position of _step_impl: idle, loop, newton, error
    result,          \* what the last call returned or raised
    min_step, h_abs, h_abs_old, error_norm_old,
    Jy, LUs, current_jac, factor,
    h, t_new, Yp0, converged, n_iter, rate, Y, Yp,
    F,               \* the residuals of the last Newton iteration: finite or not
    error_norm, safety,
    interpolant,     \* a RadauDenseOutput built from given stage values
    dense,           \* what the last evaluation of interpolant returned
    call,            \* the arguments of one call of a collocation solver
    newton,          \* the state of its Newton loop
    returned         \* what it returned

locals == <<min_step, h_abs, h_abs_old, error_norm_old, Jy, LUs, current_jac,
            factor, h, t_new, Yp0, converged, n_iter, rate, Y, Yp, F,
            error_norm, safety>>
\* the variables of the specification of the dense output alone
dense_vars == <<interpolant, dense>>
\* the variables of the specification of the collocation solvers alone
solver_vars == <<call, newton, returned>>
unit_vars == <<dense_vars, solver_vars>>
vars == <<self, pc, result, locals, unit_vars>>

entry_locals == <<min_step, h_abs_old, error_norm_old>>
solve_locals == <<converged, n_iter, rate, Y, Yp, F>>
error_locals == <<error_norm, safety>>

\* ---------------------------------------------------------------------------
\* PTIRKDAE.__init__
\* ---------------------------------------------------------------------------
\* assert stages % 2 == 0
StagesAccepted(stages) == stages % 2 = 0

PTIRKDAE(t0, t_bound, stages, max_step, first_step, jac, newton_iter_embedded) ==
    [ status |-> IF StagesAccepted(stages) THEN "running" ELSE "AssertionError",
      stages |-> stages,
      direction |-> IF t_bound >= t0 THEN 1 ELSE -1,
      t_bound |-> t_bound,
      max_step |-> max_step,
      jac |-> jac,
      newton_iter_embedded |-> newton_iter_embedded,
      newton_max_iter |-> NewtonMaxIter,
      newton_tol |-> NewtonTol,
      t |-> t0, y |-> 0, yp |-> 0,
      t_old |-> None, y_old |-> None, yp_old |-> None,
      h_abs |-> first_step,
      h_abs_old |-> None,
      error_norm_old |-> None,
      Jy |-> t0,
      current_jac |-> TRUE,
      LUs |-> NoLUs,
      sol |-> NoSol ]

\* a solver as __init__ leaves it, no call of _step_impl made yet
Constructed ==
    /\ \E stages \in 3..MaxStages, t_bound \in {TEnd, -TEnd},
          max_step \in MaxSteps, first_step \in FirstSteps,
          jac \in BOOLEAN, nie \in EmbeddedIters :
          self = PTIRKDAE(0, t_bound, stages, max_step, first_step, jac, nie)
    /\ pc = "idle"
    /\ result = "None"
    /\ min_step = None
    /\ h_abs = None
    /\ h_abs_old = None
    /\ error_norm_old = None
    /\ Jy = None
    /\ LUs = NoLUs
    /\ current_jac = FALSE
    /\ factor = None
    /\ h = None
    /\ t_new = None
    /\ Yp0 = NoGuess
    /\ converged = FALSE
    /\ n_iter = None
    /\ rate = NoRate
    /\ Y = None
    /\ Yp = None
    /\ F = "empty"
    /\ error_norm = None
    /\ safety = None

Init ==
    /\ Constructed
    /\ interpolant = NoSol
    /\ dense = NoValue
    /\ call = NoCall
    /\ newton = NewtonStart
    /\ returned = NoReturn

\* ---------------------------------------------------------------------------
\* PTIRKDAE._step_impl
\* ---------------------------------------------------------------------------
\* lines 577-588: the step magnitude and the controller history at entry
ClampStep(self_h_abs, max_step, min_step_) ==
    IF Lt(max_step, self_h_abs) THEN max_step
    ELSE IF Lt(self_h_abs, min_step_) THEN min_step_
    ELSE self_h_abs

Clamped(self_h_abs, max_step, min_step_) ==
    Lt(max_step, self_h_abs) \/ Lt(self_h_abs, min_step_)

\* lines 554-599
StepEntry ==
    /\ pc = "idle"
    /\ self.status = "running"
    /\ LET ms == MinStep(self.t, self.direction)
           cl == Clamped(self.h_abs, self.max_step, ms)
       IN  /\ min_step' = ms
           /\ h_abs' = ClampStep(self.h_abs, self.max_step, ms)
           /\ h_abs_old' = IF cl THEN None ELSE self.h_abs_old
           /\ error_norm_old' = IF cl THEN None ELSE self.error_norm_old
    /\ Jy' = self.Jy
    /\ LUs' = self.LUs
    /\ current_jac' = self.current_jac
    /\ factor' = None
    /\ pc' = "loop"
    /\ result' = "None"
    /\ h' = None
    /\ t_new' = None
    /\ Yp0' = NoGuess
    /\ converged' = FALSE
    /\ n_iter' = None
    /\ rate' = NoRate
    /\ Y' = None
    /\ Yp' = None
    /\ F' = "empty"
    /\ error_norm' = None
    /\ safety' = None
    /\ UNCHANGED <<self, unit_vars>>

\* line 601
TooSmall(h_abs_, min_step_) == Lt(h_abs_, min_step_)

\* the status the stepping driver derives from the (success, message) pair:
\* it stops on a failure and when t has reached t_bound
DriverStatus(success, t, direction, t_bound) ==
    IF ~success THEN "failed"
    ELSE IF direction * (t - t_bound) >= 0 THEN "finished"
    ELSE "running"

\* lines 601-602
ReturnTooSmall ==
    /\ pc = "loop"
    /\ TooSmall(h_abs, min_step)
    /\ pc' = "idle"
    /\ result' = TOO_SMALL_STEP
    /\ self' = [self EXCEPT
          !.status = DriverStatus(FALSE, self.t, self.direction, self.t_bound)]
    /\ UNCHANGED <<unit_vars, locals>>

\* lines 604-608
\* variant: the new time is not cut back to t_bound
NextTime_Unbounded(t, h_abs_, direction, t_bound) ==
    IF h_abs_ = NaN THEN NaN ELSE Fl(t + h_abs_ * direction)

NextTime(t, h_abs_, direction, t_bound) ==
    LET tn == IF h_abs_ = NaN THEN NaN ELSE Fl(t + h_abs_ * direction)
    IN  IF tn # NaN /\ direction * (tn - t_bound) > 0 THEN t_bound ELSE tn

\* lines 613-622: zeros on the first step, else the dense output at t + h * c
StageGuess(sol, t, h_) ==
    IF sol = NoSol THEN [from |-> <<None, None>>, h |-> None, applied |-> 0]
    ELSE [from |-> <<sol.t_old, sol.t>>, h |-> h_, applied |-> 0]

\* line 610
StepTo(t_new_, t) == IF t_new_ = NaN THEN NaN ELSE t_new_ - t

\* lines 603-625
Attempt ==
    /\ pc = "loop"
    /\ ~TooSmall(h_abs, min_step)
    /\ LET tn == NextTime(self.t, h_abs, self.direction, self.t_bound)
       IN  /\ t_new' = tn
           /\ h' = StepTo(tn, self.t)
           /\ h_abs' = Abs(StepTo(tn, self.t))
           /\ Yp0' = StageGuess(self.sol, self.t, StepTo(tn, self.t))
    /\ converged' = FALSE
    /\ pc' = "newton"
    /\ UNCHANGED <<unit_vars, self, result, entry_locals, Jy, LUs, current_jac, factor,
                   n_iter, rate, Y, Yp, F, error_locals>>

\* lines 627-632: the per-block factorizations of Jyp + h * ga * Jy
Factorize(LUs_, h_, Jy_) ==
    IF LUs_ = NoLUs THEN [h |-> h_, J |-> Jy_] ELSE LUs_

\* the last stage of the collocation solution at time t
StageY(t) == IF t = NaN THEN NaN ELSE t * t
StageYp(t) == IF t = NaN THEN NaN ELSE 2 * t

\* what the solver returns for a step that is NaN: the stage times and values
\* are NaN, so either the first residual is non-finite, or every correction
\* norm is NaN, no test fires and the iterations are used up
NaNStepOutcomes(newton_max_iter) ==
    { [converged |-> FALSE, n_iter |-> 1, rate |-> NoRate,
       applied |-> 0, F |-> "non-finite"],
      [converged |-> FALSE, n_iter |-> newton_max_iter, rate |-> <<NaN, 1>>,
       applied |-> newton_max_iter, F |-> "finite"] }

OutcomesFor(h_, newton_max_iter) ==
    IF h_ = NaN THEN NaNStepOutcomes(newton_max_iter) ELSE SolverOutcomes

\* lines 233 and 257: solve_collocation_system2 binds Yp to the array Yp0 and
\* adds every correction to it in place, so the caller's Yp0 holds the last
\* iterate afterwards; solve_collocation_system (lines 171-172, 213-214)
\* works on W and rebinds Z, leaving Z0 alone
AddedInPlace(Yp0_, applied) ==
    IF UNKNOWN_VELOCITIES THEN [Yp0_ EXCEPT !.applied = @ + applied] ELSE Yp0_

\* lines 627-641 and the results the solver hands back
Solve(out) ==
    /\ converged' = out.converged
    /\ n_iter' = out.n_iter
    /\ rate' = out.rate
    /\ Y' = StageY(t_new)
    /\ Yp' = StageYp(t_new)
    /\ F' = out.F
    /\ Yp0' = AddedInPlace(Yp0, out.applied)

\* lines 627-643, converged
NewtonConverged ==
    /\ pc = "newton"
    /\ \E out \in OutcomesFor(h, self.newton_max_iter) :
          /\ out.converged
          /\ Solve(out)
    /\ LUs' = Factorize(LUs, h, Jy)
    /\ pc' = "error"
    /\ UNCHANGED <<unit_vars, self, result, entry_locals, h_abs, Jy, current_jac, factor,
                   h, t_new, error_locals>>

\* variant: every failed solve leaves the inner loop, the Jacobian stale or not
BreakOnFailure_Always(current_jac_) == TRUE

\* lines 643-645: a failed solve with a current Jacobian leaves the inner loop
BreakOnFailure(current_jac_) == current_jac_

\* h_abs *= 0.5
Halve(h_abs_) == Scale(h_abs_, 500)

\* lines 627-645 and 651-654: not converged with a current Jacobian
NewtonFailShrink ==
    /\ pc = "newton"
    /\ BreakOnFailure(current_jac)
    /\ \E out \in OutcomesFor(h, self.newton_max_iter) :
          /\ ~out.converged
          /\ Solve(out)
    /\ h_abs' = Halve(h_abs)
    /\ LUs' = NoLUs
    /\ pc' = "loop"
    /\ UNCHANGED <<unit_vars, self, result, entry_locals, Jy, current_jac, factor,
                   h, t_new, error_locals>>

\* variant: the refreshed Jacobian is stored in the solver at once
NewtonFailRefresh_Persisting ==
    /\ pc = "newton"
    /\ ~BreakOnFailure(current_jac)
    /\ \E out \in OutcomesFor(h, self.newton_max_iter) :
          /\ ~out.converged
          /\ Solve(out)
    /\ Jy' = self.t
    /\ current_jac' = TRUE
    /\ LUs' = NoLUs
    /\ pc' = "newton"
    /\ self' = [self EXCEPT !.Jy = self.t, !.current_jac = TRUE]
    /\ UNCHANGED <<unit_vars, result, entry_locals, h_abs, factor,
                   h, t_new, error_locals>>

\* lines 627-649: not converged with a stale Jacobian
NewtonFailRefresh ==
    /\ pc = "newton"
    /\ ~BreakOnFailure(current_jac)
    /\ \E out \in OutcomesFor(h, self.newton_max_iter) :
          /\ ~out.converged
          /\ Solve(out)
    /\ Jy' = self.t
    /\ current_jac' = TRUE
    /\ LUs' = NoLUs
    /\ pc' = "newton"
    /\ UNCHANGED <<unit_vars, self, result, entry_locals, h_abs, factor,
                   h, t_new, error_locals>>

\* lines 627-629 with h = NaN: the injected lu is handed a matrix of NaN and
\* may refuse it
RaiseFromLu ==
    /\ pc = "newton"
    /\ LUs = NoLUs
    /\ h = NaN
    /\ pc' = "idle"
    /\ result' = "raised by lu"
    /\ UNCHANGED <<unit_vars, self, locals>>

\* lines 674-677: the injected solve_lu is handed the residual of the embedded
\* estimate and may refuse a non-finite one
RaiseFromSolveLu ==
    /\ pc = "error"
    /\ self.newton_iter_embedded = 1
    /\ pc' = "idle"
    /\ result' = "raised by solve_lu"
    /\ UNCHANGED <<unit_vars, self, locals>>

\* variant: two embedded iterations pass as supported
EmbeddedUnsupported_FromThree(newton_iter_embedded) ==
    newton_iter_embedded > 2 /\ UNKNOWN_VELOCITIES

\* lines 680-683
EmbeddedUnsupported(newton_iter_embedded) ==
    newton_iter_embedded # 0 /\ newton_iter_embedded # 1 /\ UNKNOWN_VELOCITIES

\* lines 656-683, raising
RaiseNotImplemented ==
    /\ pc = "error"
    /\ EmbeddedUnsupported(self.newton_iter_embedded)
    /\ pc' = "idle"
    /\ result' = "NotImplementedError"
    /\ UNCHANGED <<unit_vars, self, locals>>

\* lines 665-702: the explicit estimate (newton_iter_embedded = 0) evaluates
\* no residual; the implicit one evaluates it at (t_new, y_new, yp_hat_new)
\* without a finiteness test, and a non-finite residual that solve_lu lets
\* through makes the norm inf or nan
ErrorNorms(newton_iter_embedded) ==
    IF newton_iter_embedded = 1 THEN ErrNorms \cup {Inf, NaN} ELSE ErrNorms

\* line 706
ErrorRejected(error_norm_) == Lt(ONE, error_norm_)

\* lines 656-709: the error norm exceeds 1
ErrorReject ==
    /\ pc = "error"
    /\ ~EmbeddedUnsupported(self.newton_iter_embedded)
    /\ \E e \in ErrorNorms(self.newton_iter_embedded) :
          /\ ErrorRejected(e)
          /\ error_norm' = e
          /\ safety' = Safety(self.newton_max_iter, n_iter)
          /\ factor' = predict_factor(h_abs, h_abs_old, e, error_norm_old,
                                      self.stages)
          /\ h_abs' = Scale(Scale(h_abs, safety'), factor')
    /\ LUs' = NoLUs
    /\ pc' = "loop"
    /\ UNCHANGED <<unit_vars, self, result, entry_locals, Jy, current_jac,
                   h, t_new, Yp0, solve_locals>>

\* rate > self.jac_recompute_rate
RateAbove(rate_, bound) == rate_[1] * bound[2] > bound[1] * rate_[2]

\* variant: two iterations already trigger the recompute
RecomputeJac_Eager(jac, n_iter_, rate_) ==
    jac /\ n_iter_ >= 2 /\ RateAbove(rate_, jac_recompute_rate)

\* lines 714-718
RecomputeJac(jac, n_iter_, rate_) ==
    jac /\ n_iter_ > 2 /\ RateAbove(rate_, jac_recompute_rate)

\* lines 720-722
NextFactor(factor_, safety_, h_abs_, h_abs_old_, error_norm_, error_norm_old_, s) ==
    IF factor_ = None
    THEN Scale(safety_, predict_factor(h_abs_, h_abs_old_, error_norm_,
                                       error_norm_old_, s))
    ELSE factor_

\* variant: the deadband has no upper end
InDeadband_NoUpper(recompute_jac, factor_) ==
    /\ ~recompute_jac
    /\ controller_deadband[1] <= factor_

\* lines 725-728
InDeadband(recompute_jac, factor_) ==
    /\ ~recompute_jac
    /\ Le(controller_deadband[1], factor_)
    /\ Le(factor_, controller_deadband[2])

\* lines 765-773
\* lines 780-787; in the model of _step_impl Q and Qp stand for the last rows
\* of Z and Zp, the increments of the last stage
RadauDenseOutput(t_old, t, y_old, Q, yp_old, Qp) ==
    [t_old |-> t_old, t |-> t, h |-> t - t_old, y_old |-> y_old,
     yp_old |-> yp_old, Q |-> Q, Qp |-> Qp]

\* lines 656-706 and 710-763: the error norm is at most 1
Accept ==
    /\ pc = "error"
    /\ ~EmbeddedUnsupported(self.newton_iter_embedded)
    /\ \E e \in ErrorNorms(self.newton_iter_embedded) :
          /\ ~ErrorRejected(e)
          /\ error_norm' = e
          /\ safety' = Safety(self.newton_max_iter, n_iter)
    /\ LET recompute_jac == RecomputeJac(self.jac, n_iter, rate)
           f == NextFactor(factor, safety', h_abs, h_abs_old, error_norm',
                           error_norm_old, self.stages)
           keep == InDeadband(recompute_jac, f)
       IN  /\ factor' = IF keep THEN ONE ELSE f
           /\ LUs' = IF keep THEN LUs ELSE NoLUs
           /\ Jy' = IF recompute_jac THEN t_new ELSE Jy
           /\ current_jac' = IF recompute_jac THEN TRUE
                             ELSE IF self.jac THEN FALSE ELSE current_jac
    /\ self' = [self EXCEPT
          !.h_abs_old = self.h_abs,
          !.error_norm_old = error_norm',
          !.h_abs = Scale(h_abs, factor'),
          !.y_old = self.y,
          !.yp_old = self.yp,
          !.t = t_new,
          !.y = Y,
          !.yp = Yp,
          !.LUs = LUs',
          !.current_jac = current_jac',
          !.Jy = Jy',
          !.t_old = self.t,
          !.sol = RadauDenseOutput(self.t, t_new, self.y, Y - self.y,
                                   self.yp, Yp - self.yp),
          !.status = DriverStatus(TRUE, t_new, self.direction, self.t_bound)]
    /\ pc' = "idle"
    /\ result' = "accepted"
    /\ UNCHANGED <<unit_vars, entry_locals, h_abs, h, t_new, Yp0, solve_locals>>

InCall ==
    \/ ReturnTooSmall
    \/ Attempt
    \/ NewtonConverged
    \/ NewtonFailShrink
    \/ NewtonFailRefresh
    \/ RaiseFromLu
    \/ RaiseFromSolveLu
    \/ RaiseNotImplemented
    \/ ErrorReject
    \/ Accept

Next == StepEntry \/ InCall

Spec == Init /\ [][Next]_vars

\* a call, once entered, runs to its return: the code has no suspension point
FairSpec == Spec /\ WF_vars(InCall)

\* ---------------------------------------------------------------------------
\* _compute_dense_output and RadauDenseOutput._call_impl, for two stages: a
\* dense output is built from given stage values and evaluated, in exact
\* fractions <<numerator, denominator>> in lowest terms
\* ---------------------------------------------------------------------------
Frac(n, d) ==
    LET g == Gcd(Abs(n), Abs(d))
        sg == IF d < 0 THEN -1 ELSE 1
    IN  <<(sg * n) \div g, (sg * d) \div g>>
FracAdd(a, b) == Frac(a[1] * b[2] + b[1] * a[2], a[2] * b[2])
FracMul(a, b) == Frac(a[1] * b[1], a[2] * b[2])
FracPow(a, n) == Frac(Pow(a[1], n), Pow(a[2], n))
FracDot(Q, p) ==
    LET sum[j \in 0..Len(Q)] ==
            IF j = 0 THEN <<0, 1>>
            ELSE FracAdd(sum[j - 1], FracMul(Q[j], p[j]))
    IN  sum[Len(Q)]

\* lines 31-33 for s = 2: the roots of d/dx (x (x - 1)^2) = (x - 1)(3 x - 1)
RadauNodes == << <<1, 3>>, <<1, 1>> >>

\* lines 94-95 and 113: the inverse of the Vandermonde matrix of the nodes
\* 0, 1/3, 1 without its first row and column
P == << << <<9, 2>>, <<-9, 2>> >>,
        << <<-1, 2>>, <<3, 2>> >> >>

\* np.dot(Z.T, self.P)
DotP(Z) ==
    [k \in 1..Len(P) |->
        FracDot([i \in 1..Len(P) |-> <<Z[i], 1>>],
                [i \in 1..Len(P) |-> P[i][k]])]

\* lines 765-773
compute_dense_output(t_old, t, y_old, yp_old, Y_, Yp_) ==
    LET Z == [i \in 1..Len(Y_) |-> Y_[i] - y_old]
        Q == DotP(Z)
        Zp == [i \in 1..Len(Yp_) |-> Yp_[i] - yp_old]
        Qp == DotP(Zp)
    IN  RadauDenseOutput(t_old, t, y_old, Q, yp_old, Qp)

\* variant: the derivative is taken from the second polynomial, as
\* yp_old + Qp . p
call_impl_Collocation(sol, t) ==
    LET x == Frac(t - sol.t_old, sol.h)
        order == Len(sol.Q) - 1
        p == [c \in 1..(order + 1) |-> FracPow(x, c)]
    IN  [t |-> t,
         y |-> FracAdd(FracDot(sol.Q, p), <<sol.y_old, 1>>),
         yp |-> FracAdd(FracDot(sol.Qp, p), <<sol.yp_old, 1>>)]

\* lines 789-823: RadauDenseOutput._call_impl
call_impl(sol, t) ==
    LET x == Frac(t - sol.t_old, sol.h)
        order == Len(sol.Q) - 1
        p == [c \in 1..(order + 1) |-> FracPow(x, c)]
        dp == [c \in 1..(order + 1) |->
                  FracMul(Frac(c, sol.h), FracPow(x, c - 1))]
    IN  [t |-> t,
         y |-> FracAdd(FracDot(sol.Q, p), <<sol.y_old, 1>>),
         yp |-> FracDot(sol.Q, dp)]

\* one solver of those __init__ builds, for the specifications of the parts
OneSolver ==
    /\ Constructed
    /\ self.t_bound = TEnd /\ self.stages = DefaultStages
    /\ self.max_step = Inf /\ self.h_abs = 3
    /\ self.jac /\ self.newton_iter_embedded = 0

\* the dense output of a step from t_old to t # t_old with any stage values,
\* the last stage being the new state
DenseInit ==
    /\ OneSolver
    /\ call = NoCall /\ newton = NewtonStart /\ returned = NoReturn
    /\ \E t_old \in DenseTimes, step \in DenseSteps,
          y_old \in StateVals, yp_old \in DerivVals,
          Y_ \in [1..Len(P) -> StateVals], Yp_ \in [1..Len(P) -> DerivVals] :
          interpolant = compute_dense_output(t_old, t_old + step, y_old, yp_old,
                                             Y_, Yp_)
    /\ dense = NoValue

\* the times at which the dense output is evaluated: the ends of its step and
\* the point one step before it
QueryTimes(sol) == {sol.t_old, sol.t, sol.t_old - sol.h}

\* an evaluation sol(t) of the dense output
DenseCall ==
    /\ \E t \in QueryTimes(interpolant) : dense' = call_impl(interpolant, t)
    /\ UNCHANGED <<self, pc, result, locals, interpolant, solver_vars>>

DenseSpec == DenseInit /\ [][DenseCall]_vars

\* ---------------------------------------------------------------------------
\* solve_collocation_system and solve_collocation_system2 alone, one pass of
\* the Newton loop at a time, for any correction norms
\* ---------------------------------------------------------------------------
SolverInit ==
    /\ OneSolver
    /\ interpolant = NoSol /\ dense = NoValue
    /\ \E strategy \in 1..2, norms \in [1..NewtonMaxIter -> SolverNorms],
          nonfinite_at \in 0..NewtonMaxIter, newton_max_iter \in 1..NewtonMaxIter :
          call = [strategy |-> strategy, norms |-> norms,
                  nonfinite_at |-> nonfinite_at,
                  newton_max_iter |-> newton_max_iter, tol |-> NewtonTol]
    /\ newton = NewtonStart
    /\ returned = NoReturn

\* lines 182-222, one pass
Iterate1 ==
    /\ call.strategy = 1
    /\ ~newton.done
    /\ newton' = NewtonIteration1(newton, call.norms[newton.k + 1],
                                  call.nonfinite_at = newton.k + 1,
                                  call.newton_max_iter, call.tol)
    /\ UNCHANGED <<self, pc, result, locals, dense_vars, call, returned>>

\* lines 243-278, one pass
Iterate2 ==
    /\ call.strategy = 2
    /\ ~newton.done
    /\ newton' = NewtonIteration2(newton, call.norms[newton.k + 1],
                                  call.nonfinite_at = newton.k + 1,
                                  call.newton_max_iter, call.tol)
    /\ UNCHANGED <<self, pc, result, locals, dense_vars, call, returned>>

\* lines 224 and 280
Return ==
    /\ newton.done
    /\ returned = NoReturn
    /\ returned' = NewtonReturn(newton)
    /\ UNCHANGED <<self, pc, result, locals, dense_vars, call, newton>>

SolverNext == Iterate1 \/ Iterate2 \/ Return

SolverSpec == SolverInit /\ [][SolverNext]_vars

\* ---------------------------------------------------------------------------
\* Properties
\* ---------------------------------------------------------------------------
\* the factorizations a solve at this position works with
BuiltFor(LUs_, h_, Jy_) == LUs_ = [h |-> h_, J |-> Jy_]

\* C1: every Newton solve (position newton, with cached factorizations) and
\* every embedded-error solve (position error) uses factorizations built from
\* exactly the signed step h and the Jacobian pair of that solve.
C1_FactorizationsFresh ==
    /\ (pc = "newton" /\ LUs # NoLUs) => BuiltFor(LUs, h, Jy)
    /\ pc = "error" => BuiltFor(LUs, h, Jy)

\* C2, for the default newton_iter_embedded = 1: a finished call has one of
\* two outcomes, an accepted step or the failure "too small step"; nothing
\* else, a non-finite residual included, reaches the caller.
C2_TwoOutcomes ==
    (pc = "idle" /\ result # "None" /\ self.newton_iter_embedded = 1) =>
        result \in {"accepted", TOO_SMALL_STEP}

\* a step of the model is the accepting one
Accepting == pc = "error" /\ result' = "accepted"

\* the state a call that accepted a step has returned in
Accepted == pc = "idle" /\ result = "accepted"

\* C3: a step is accepted only after a converged solve of the attempt whose
\* signed step the accepted step is, and with an error norm of at most 1.
C3_AcceptedOnlyWithinTolerance ==
    Accepted =>
        /\ converged
        /\ Le(error_norm, ONE)
        /\ self.t = t_new
        /\ self.t - self.t_old = h

\* the fields of the solver the step attempt keeps between calls
Persistent ==
    <<self.t, self.y, self.yp, self.t_old, self.y_old, self.yp_old,
      self.h_abs, self.h_abs_old, self.error_norm_old,
      self.Jy, self.current_jac, self.LUs, self.sol>>

\* C4: only the accepting step writes a persistent field; rejections, Jacobian
\* refreshes and the return of "too small step" leave all of them unchanged.
C4_PersistentWrittenOnlyOnAcceptance ==
    [][~Accepting => UNCHANGED Persistent]_vars

\* C4 witness: a call that refreshed its Jacobian, then failed with "too small
\* step", the solver's Jacobian untouched
C4_Witness ==
    /\ pc = "idle" /\ result = TOO_SMALL_STEP
    /\ Jy # self.Jy
    /\ ~self.current_jac /\ current_jac
    /\ self.error_norm_old # None

\* C5: with max_step below min_step the call solves nothing and returns "too
\* small step"; that failure is returned only with a step magnitude below
\* min_step.
C5_MaxStepBelowMinStepFails ==
    /\ pc \in {"newton", "error"} => self.max_step >= min_step
    /\ (pc = "idle" /\ result # "None" /\ self.max_step < min_step) =>
          result = TOO_SMALL_STEP
    /\ result = TOO_SMALL_STEP => Lt(h_abs, min_step)

\* C6: the step magnitude a solve runs with, and an accepted step has, lies in
\* [min_step, max_step].
C6_SolvedStepWithinLimits ==
    (pc \in {"newton", "error"} \/ Accepted) =>
        (Le(min_step, h_abs) /\ Le(h_abs, self.max_step))

\* C7: an accepted step re-evaluates the Jacobian at the new time exactly when
\* an evaluator exists, the accepting solve took more than 2 iterations and its
\* rate is above jac_recompute_rate; then the solver holds that Jacobian marked
\* current and no factorizations, otherwise the old Jacobian, marked stale if
\* an evaluator exists; the next attempt starts from what the solver holds.
C7_JacobianRecomputedWhenSlow ==
    /\ [](Accepted =>
            LET slow == self.jac /\ n_iter > 2 /\ RateAbove(rate, jac_recompute_rate)
            IN  /\ slow => (self.Jy = self.t /\ self.current_jac
                            /\ self.LUs = NoLUs)
                /\ ~slow => (self.Jy # self.t
                             /\ (self.jac => ~self.current_jac)))
    /\ [][ /\ Accepting =>
                 /\ Jy' # Jy <=>
                       (self.jac /\ n_iter > 2
                        /\ RateAbove(rate, jac_recompute_rate))
                 /\ Jy' \in {Jy, t_new}
                 /\ self'.Jy = Jy'
           /\ (pc = "idle" /\ pc' = "loop") =>
                 (Jy' = self.Jy /\ current_jac' = self.current_jac
                  /\ LUs' = self.LUs)
         ]_vars

\* C7 witness: the attempt after such a step, solving with the Jacobian of the
\* new time
C7_Witness ==
    /\ pc = "newton"
    /\ self.jac /\ self.t # 0
    /\ Jy = self.t /\ current_jac /\ LUs = NoLUs
    /\ h_abs = self.h_abs

\* C8 as stated, last part: the retry after a halving keeps the stage guess of
\* the failed solve.
C8_RetryKeepsStageGuess ==
    [][(pc = "loop" /\ h # None /\ ~converged /\ pc' = "newton") => Yp0' = Yp0]_vars

\* C8, amended: a failed solve with a stale Jacobian re-evaluates it at the
\* current time, marks it current, drops the factorizations and repeats the
\* solve with the same step, which rebuilds them, starting from the guess as
\* the failed solve left it (its corrections added in place); only a failed
\* solve with a current Jacobian halves the step and drops the factorizations;
\* the retry after a halving starts the attempt over: the minimal step is
\* tested again and the stage guess is predicted for the shortened step.
C8_TwoTierNewtonRetry ==
    [][ /\ (pc = "newton" /\ ~current_jac /\ pc' # "idle" /\ ~converged') =>
              /\ pc' = "newton"
              /\ Jy' = self.t /\ current_jac' /\ LUs' = NoLUs
              /\ h' = h /\ h_abs' = h_abs
              /\ Yp0' = [Yp0 EXCEPT !.applied =
                             @ + IF F' = "finite" THEN n_iter' ELSE n_iter' - 1]
        /\ (pc = "newton" /\ pc' = "error" /\ LUs = NoLUs) => BuiltFor(LUs', h, Jy)
        /\ (pc = "newton" /\ pc' = "loop") =>
              /\ current_jac /\ ~converged'
              /\ IF h_abs = NaN THEN h_abs' = NaN
                 ELSE 2 * h_abs' <= h_abs /\ h_abs <= 2 * h_abs' + 1
              /\ LUs' = NoLUs
        /\ (pc = "loop" /\ h_abs # NaN /\ h_abs < min_step) =>
              result' = TOO_SMALL_STEP
        /\ (pc = "loop" /\ pc' = "newton") =>
              /\ h_abs >= min_step
              /\ Yp0' = IF self.sol = NoSol THEN NoGuess
                        ELSE [from |-> <<self.t_old, self.t>>, h |-> h',
                              applied |-> 0]
      ]_vars

\* C8 witness: a retry after a refresh and a halving, its stage guess predicted
\* from the last dense output for the shortened step
C8_Witness ==
    /\ pc = "newton"
    /\ self.sol # NoSol
    /\ ~self.current_jac /\ current_jac
    /\ ~converged /\ n_iter # None /\ error_norm = None
    /\ Yp0.h = h
    /\ 2 * h_abs <= ClampStep(self.h_abs, self.max_step, min_step)
    /\ t_new # self.t_bound

\* C9: on acceptance without a Jacobian recompute and with the next-step
\* factor inside controller_deadband, the factor becomes 1, the solver's next
\* step magnitude is that of the accepted step and it keeps the factorizations
\* of the accepted step; in every other case it holds no factorizations; the
\* next attempt starts from what the solver holds.
C9_DeadbandKeepsStepAndFactorizations ==
    [][ /\ Accepting =>
              LET slow == self.jac /\ n_iter > 2
                          /\ RateAbove(rate, jac_recompute_rate)
                  f == IF factor = None
                       THEN Scale(safety', predict_factor(h_abs, h_abs_old,
                                     error_norm', error_norm_old, self.stages))
                       ELSE factor
              IN  IF ~slow /\ f # NaN /\ controller_deadband[1] <= f
                           /\ f <= controller_deadband[2]
                  THEN /\ factor' = ONE
                       /\ self'.h_abs = h_abs
                       /\ self'.LUs = LUs /\ LUs # NoLUs
                  ELSE /\ self'.LUs = NoLUs
                       /\ self'.h_abs = Scale(h_abs, f)
        /\ (pc = "idle" /\ pc' = "loop") => LUs' = self.LUs
      ]_vars

\* C9 witness: the attempt after a step accepted inside the deadband, starting
\* with the kept step magnitude and the kept factorizations
C9_Witness ==
    /\ pc = "loop"
    /\ factor = None
    /\ LUs # NoLUs
    /\ h_abs = Abs(LUs.h)
    /\ h_abs = Abs(self.t - self.t_old)

\* C10: the solver is constructed exactly for the odd stage counts, the
\* default among them.
C10_OnlyOddStages ==
    /\ self.status # "AssertionError" <=> self.stages % 2 = 1
    /\ DefaultStages % 2 = 1

\* C11: with newton_iter_embedded >= 2 and the derivatives as unknowns, the
\* first converged solve of a call ends it with NotImplementedError, no
\* persistent field written: such a solver never accepts a step and stays as
\* constructed; no other configuration raises it.
C11_UnsupportedEmbeddedRaisesFirst ==
    /\ [](result = "NotImplementedError" =>
            /\ self.newton_iter_embedded >= 2 /\ UNKNOWN_VELOCITIES
            /\ pc = "idle" /\ converged /\ error_norm = None)
    /\ [](self.newton_iter_embedded >= 2 =>
            /\ result # "accepted"
            /\ self.t = 0 /\ self.sol = NoSol /\ self.LUs = NoLUs
            /\ self.h_abs_old = None /\ self.error_norm_old = None)
    /\ [][(pc = "error" /\ self.newton_iter_embedded >= 2) =>
              (result' = "NotImplementedError" /\ UNCHANGED Persistent)]_vars

\* C11 witness: the error raised by the first solve that converged, after a
\* failed solve had halved the step
C11_Witness ==
    /\ pc = "idle" /\ result = "NotImplementedError"
    /\ self.newton_iter_embedded = 2
    /\ converged
    /\ 2 * h_abs <= ClampStep(self.h_abs, self.max_step, min_step)
    /\ t_new # self.t_bound

\* C12: a Newton iteration whose residuals are not finite ends the solve at
\* once: unconverged, the iterations counted up to it, its correction never
\* added (the corrections of the earlier iterations are); _step_impl then goes
\* on like after any failed solve, refreshing a stale Jacobian and repeating
\* the solve at the same step, halving the step otherwise, and neither
\* returns nor raises.
C12_NonFiniteResidualIsNonConvergence ==
    [][(pc = "newton" /\ result' # "raised by lu" /\ F' = "non-finite") =>
          /\ ~converged'
          /\ n_iter' \in 1..self.newton_max_iter
          /\ Yp0' = [Yp0 EXCEPT !.applied = @ + n_iter' - 1]
          /\ result' = "None" /\ UNCHANGED self
          /\ IF current_jac
             THEN /\ pc' = "loop" /\ LUs' = NoLUs
                  /\ h_abs' = Halve(h_abs)
                  /\ UNCHANGED <<Jy, current_jac>>
             ELSE /\ pc' = "newton" /\ LUs' = NoLUs
                  /\ Jy' = self.t /\ current_jac'
                  /\ UNCHANGED <<h, h_abs, t_new>>
      ]_vars

\* C12 witness: residuals not finite in the second iteration of a solve with a
\* stale Jacobian on a finite step: one correction was added, the Jacobian is
\* refreshed, the step kept
C12_Witness ==
    /\ pc = "newton" /\ F = "non-finite"
    /\ n_iter = 2 /\ Yp0.applied = 1
    /\ h # NaN
    /\ current_jac /\ ~self.current_jac
    /\ LUs = NoLUs

\* the dense output was evaluated at its t_old
EvaluatedAtStart ==
    /\ dense # NoValue
    /\ dense.t = interpolant.t_old

\* C13 as stated: the dense output of an accepted step, evaluated at t_old,
\* returns y_old as the state and yp_old as the derivative.
C13_DenseOutputAtStart ==
    EvaluatedAtStart =>
        /\ dense.y = <<interpolant.y_old, 1>>
        /\ dense.yp = <<interpolant.yp_old, 1>>

\* C13, amended: evaluated at t_old, the dense output of an accepted step
\* returns y_old as the state and, as the derivative, the first coefficient of
\* its polynomial divided by the step, Q[:, 0] / h; that is yp_old exactly
\* when the first coefficient is h * yp_old.
C13_DenseOutputAtStartDerivesPolynomial ==
    EvaluatedAtStart =>
        /\ dense.y = <<interpolant.y_old, 1>>
        /\ dense.yp = FracMul(interpolant.Q[1], Frac(1, interpolant.h))
        /\ (dense.yp = <<interpolant.yp_old, 1>>
              <=> interpolant.Q[1] = <<interpolant.h * interpolant.yp_old, 1>>)

\* C13 witness: an evaluation at t_old whose derivative differs from a nonzero
\* yp_old
C13_Witness ==
    /\ EvaluatedAtStart
    /\ interpolant.yp_old # 0
    /\ dense.yp # <<interpolant.yp_old, 1>>

\* the stated policy on a correction norm n that follows the norm m, with
\* e = max_iter - k iterations to go and rate = n / m:
\* rate >= 1 or rate^e / (1 - rate) * n > tol
PolicyDiverge(n, m, e, tol) ==
    n >= m \/ Pow(n, e) * m * n > tol * Pow(m, e) * (m - n)
\* n = 0 or rate / (1 - rate) * n < tol
PolicyConverge(n, m, tol) ==
    n = 0 \/ n * n < tol * (m - n)

\* a pass of the Newton loop whose residuals are finite
FinitePass == newton' # newton /\ call.nonfinite_at # newton.k + 1

\* C14 as stated, first part: no decision is taken after the first correction,
\* so with more than one iteration allowed the loop goes on to the second.
C14_NoDecisionAfterFirstCorrection ==
    [][(FinitePass /\ newton.k = 0 /\ call.newton_max_iter > 1)
          => ~newton'.done]_vars

\* C14, amended: in both solvers the first correction takes no divergence and
\* no rate-based decision, but a first correction of norm exactly zero stops
\* the loop converged; from the second correction on the loop stops
\* unconverged if rate >= 1 or rate^(max_iter - k) / (1 - rate) * norm > tol,
\* tested first, stops converged if the norm is zero or
\* rate / (1 - rate) * norm < tol, and goes on otherwise; when the iterations
\* are used up it returns unconverged with n_iter = newton_max_iter; k + 1
\* iterations are reported, and the returned rate is undefined exactly when
\* fewer than two corrections were computed.
C14_StopPolicy ==
    [][ /\ FinitePass =>
              LET k == newton.k
                  n == call.norms[k + 1]
                  last == k + 1 = call.newton_max_iter
              IN  /\ IF k = 0
                     THEN /\ newton'.rate = NoRate
                          /\ newton'.converged <=> n = 0
                          /\ newton'.done <=> (n = 0 \/ last)
                     ELSE LET m == call.norms[k]
                              div == PolicyDiverge(n, m, call.newton_max_iter - k,
                                                   call.tol)
                              conv == ~div /\ PolicyConverge(n, m, call.tol)
                          IN  /\ newton'.rate[1] * m = newton'.rate[2] * n
                              /\ newton'.converged <=> conv
                              /\ newton'.done <=> (div \/ conv \/ last)
                  /\ newton'.k = IF newton'.done THEN k ELSE k + 1
        /\ returned' # returned =>
              /\ returned'.converged = newton.converged
              /\ returned'.n_iter = newton.k + 1
              /\ returned'.n_iter <= call.newton_max_iter
              /\ returned'.rate = NoRate <=>
                    (IF newton.finite THEN newton.k + 1 ELSE newton.k) < 2
      ]_vars

\* C14 witness: all iterations used without a trigger, the returned rate defined
C14_Witness ==
    /\ returned # NoReturn
    /\ ~returned.converged /\ newton.finite
    /\ returned.n_iter = NewtonMaxIter
    /\ newton.norm_old = call.norms[NewtonMaxIter]
    /\ returned.rate # NoRate

\* C15: after an accepted step the persisted previous (step, error) pair is the
\* step magnitude the accepted attempt used and the error norm of that attempt.
C15_PreviousPairIsAcceptedAttempt ==
    Accepted =>
        /\ self.h_abs_old = h_abs
        /\ self.error_norm_old = error_norm

\* C16: the current time never lies beyond t_bound in the integration
\* direction; every accepted step moves it strictly in that direction, and the
\* dense output it installs spans exactly the step from the previous time to
\* the new one; no other step of a call moves the time or replaces the dense
\* output.
C16_StepsAdvanceWithinBound ==
    /\ [](self.direction * (self.t - self.t_bound) <= 0)
    /\ [][IF Accepting
          THEN /\ self.direction * (self'.t - self.t) > 0
               /\ self'.t_old = self.t
               /\ self'.sol.t_old = self.t /\ self'.sol.t = self'.t
               /\ self'.sol.h = self'.t - self.t
          ELSE self'.t = self.t /\ self'.sol = self.sol]_vars

\* C16 witness: a later step in the negative direction, cut back to t_bound
\* after a shorter attempt had been given up
C16_Witness ==
    /\ Accepted
    /\ self.direction = -1
    /\ self.t = self.t_bound /\ self.t_old # 0
    /\ self.sol.t = self.t_bound /\ self.sol.t_old = self.t_old
    /\ factor # None /\ self.status = "finished"

====
